---- MODULE Spec2Model ----
(***************************************************************************)
(* putter: an HTTP test double (src/putter.go).  Request handlers digest   *)
(* the request body, enqueue a requestRecord on callChan and may stall;    *)
(* the single storeCalls goroutine moves records from callChan into the    *)
(* recordedCalls slice.                                                    *)
(***************************************************************************)
EXTENDS Integers, Sequences, FiniteSets, TLC

(* ------------------------------ bounds --------------------------------- *)
\* number of requests (handler invocations) in a run
MaxReq == 3
\* largest history capacity (flag -c) tried
MaxCap == 2
\* Read calls a body source answers before its terminal read (SpecDigest)
MaxReads == 3
\* bytes one Read call delivers at most (SpecDigest)
MaxChunk == 1

(* --------------------------- small helpers ----------------------------- *)
SeqUpTo(S, n) == UNION {[1..k -> S] : k \in 0..n}

Min(a, b) == IF a < b THEN a ELSE b

Max(a, b) == IF a > b THEN a ELSE b

RECURSIVE Reverse(_)
Reverse(s) == IF s = <<>> THEN <<>> ELSE Reverse(Tail(s)) \o <<Head(s)>>

(* ============================ Digest Engine ============================ *)
\* body bytes
Byte == {1, 2}

\* the error values a body Read returns
ErrNil == "nil"
ErrEOF == "EOF"
ErrRead == "ERR"

\* One answer of req.Body.Read: the bytes delivered and the error returned.
ReadResult(d, e) == [data |-> d, err |-> e]

\* A body source: the answers it gives to successive Read calls.  The last
\* answer carries io.EOF or another error; the earlier ones carry a nil
\* error (and possibly zero bytes).
ScriptsOf(bytes, reads, chunk) ==
    LET Chunks == SeqUpTo(bytes, chunk)
        Mid    == {ReadResult(d, ErrNil) : d \in Chunks}
        Last   == {ReadResult(d, e) : d \in Chunks, e \in {ErrEOF, ErrRead}}
    IN  {s \o <<t>> : s \in SeqUpTo(Mid, reads - 1), t \in Last}

\* every byte the source would deliver if read to its end
RECURSIVE Content(_)
Content(script) ==
    IF script = <<>> THEN <<>> ELSE Head(script).data \o Content(Tail(script))

\* sha256 is modelled by a 16-bit iterated hash: the running state is
\* updated byte by byte, as hash.Hash.Write does block by block.
HashWidth == 65536
HashIV == 27
HashMul == 31

HashByte(h, b) == (h * HashMul + b + 1) % HashWidth

\* hasher.Write(p): feed the bytes of p into the running state
RECURSIVE HasherWrite(_, _)
HasherWrite(h, p) ==
    IF p = <<>> THEN h ELSE HasherWrite(HashByte(h, Head(p)), Tail(p))

\* hasher.Sum(nil): the raw digest, a byte slice (high byte, low byte)
HasherSum(h) == <<h \div 256, h % 256>>

\* sha256.Sum256(payload): the digest of a whole buffer in one pass
Sum256(payload) == HasherSum(HasherWrite(HashIV, payload))

HexDigit(n) == <<"0", "1", "2", "3", "4", "5", "6", "7", "8", "9",
                 "a", "b", "c", "d", "e", "f">>[n + 1]

\* hex.EncodeToString(rawHash): two lowercase hex digits per byte; a nil
\* slice encodes to the empty string.
RECURSIVE EncodeToString(_)
EncodeToString(raw) ==
    IF raw = <<>> THEN <<>>
    ELSE <<HexDigit(Head(raw) \div 16), HexDigit(Head(raw) % 16)>>
             \o EncodeToString(Tail(raw))

\* what the digest step of recordRequest leaves in its local variables
DigestOut(n, raw, pay, e, st, used) ==
    [bytesRead |-> n, rawHash |-> raw, payload |-> pay, readErr |-> e,
     status |-> st, consumed |-> used]

\* bytes.Buffer.ReadFrom(req.Body): read until io.EOF, which it reports as a
\* nil error, or until another error, which it returns; a read of zero
\* bytes with a nil error is simply followed by the next read.
RECURSIVE BufferReadFrom(_, _)
BufferReadFrom(script, buf) ==
    LET r == Head(script) IN
    IF r.err = ErrNil /\ Tail(script) # <<>>
    THEN BufferReadFrom(Tail(script), buf \o r.data)
    ELSE [buf |-> buf \o r.data,
          err |-> IF r.err = ErrEOF THEN ErrNil ELSE r.err]

\* the buffered branch of recordRequest
BufferedDigest(script) ==
    LET got == BufferReadFrom(script, <<>>) IN
    DigestOut(Len(got.buf), Sum256(got.buf), got.buf, got.err,
              IF got.err # ErrNil THEN 500 ELSE 0, got.buf)

\* a slip in the read loop: the bytes that arrive together with an error
\* (io.EOF included) are counted but not hashed
RECURSIVE StreamLoopSkipsLast(_, _, _, _, _, _)
StreamLoopSkipsLast(script, bytesRead, hasher, justRead, readErr, used) ==
    IF justRead > 0 /\ readErr = ErrNil /\ script # <<>>
    THEN LET r == Head(script) IN
         StreamLoopSkipsLast(Tail(script), bytesRead + Len(r.data),
                             IF r.err = ErrNil THEN HasherWrite(hasher, r.data) ELSE hasher,
                             Len(r.data), r.err, used \o r.data)
    ELSE [bytesRead |-> bytesRead, hasher |-> hasher, readErr |-> readErr,
          used |-> used]

\* the read loop of the streaming branch: for justRead > 0 && readErr == nil
RECURSIVE StreamLoop(_, _, _, _, _, _)
StreamLoop(script, bytesRead, hasher, justRead, readErr, used) ==
    IF justRead > 0 /\ readErr = ErrNil /\ script # <<>>
    THEN LET r == Head(script) IN
         StreamLoop(Tail(script), bytesRead + Len(r.data),
                    HasherWrite(hasher, r.data), Len(r.data), r.err,
                    used \o r.data)
    ELSE [bytesRead |-> bytesRead, hasher |-> hasher, readErr |-> readErr,
          used |-> used]

\* the streaming branch of recordRequest: one Read before the loop, the
\* loop, then the digest unless the read ended with a non-EOF error
StreamingDigest(script) ==
    LET r    == Head(script)
        got  == StreamLoop(Tail(script), Len(r.data),
                           HasherWrite(HashIV, r.data), Len(r.data), r.err,
                           r.data)
        fail == got.readErr # ErrNil /\ got.readErr # ErrEOF
    IN  DigestOut(got.bytesRead,
                  IF fail THEN <<>> ELSE HasherSum(got.hasher),
                  <<>>, got.readErr, IF fail THEN 500 ELSE 0, got.used)

\* if bufferRequest || storePayload ... else ...
Digest(buffered, script) ==
    IF buffered THEN BufferedDigest(script) ELSE StreamingDigest(script)

\* the requestRecord a handler builds; id stands for Timestamp, Method, Uri
Record(id, out) ==
    [id |-> id, PayloadSize |-> out.bytesRead,
     PayloadHash |-> EncodeToString(out.rawHash), Payload |-> out.payload]
(* ====================== slices and the history ========================= *)
\* the zero value of requestRecord
ZeroRecord == [id |-> 0, PayloadSize |-> 0, PayloadHash |-> <<>>, Payload |-> <<>>]

\* Backing arrays live in heap, a function from array ids to the array's
\* elements (its length is the capacity); an unallocated id holds <<>>.
ArrId == 1..(MaxReq + 4)

\* a slice value: backing array and length (every slice the program stores
\* starts at element 0 of its array)
Slice(a, n) == [arr |-> a, len |-> n]

Cap(heap, s) == Len(heap[s.arr])

\* the elements s[lo:hi] of a slice (0-based, hi exclusive), as values
Elems(heap, s, lo, hi) == SubSeq(heap[s.arr], lo + 1, hi)

\* a freshly allocated array of n elements
RECURSIVE ZeroArray(_)
ZeroArray(n) == IF n = 0 THEN <<>> ELSE Append(ZeroArray(n - 1), ZeroRecord)

\* the capacity append gives a slice that has to grow (Go runtime
\* growslice for small slices: double, or the needed length if larger)
GrowCap(old, needed) == IF needed > 2 * old THEN needed ELSE 2 * old

\* an array id no live slice refers to
FreshArr(live) == CHOOSE a \in ArrId : a \notin live /\ \A b \in ArrId \ live : a <= b

\* One memory operation of the consumer: allocate an array, or store one
\* element.
OpAlloc(a, n) == [op |-> "alloc", arr |-> a, idx |-> n, val |-> ZeroRecord]
OpStore(a, i, v) == [op |-> "store", arr |-> a, idx |-> i, val |-> v]

ApplyOp(heap, o) ==
    IF o.op = "alloc"
    THEN [heap EXCEPT ![o.arr] = ZeroArray(o.idx)]
    ELSE [heap EXCEPT ![o.arr][o.idx] = o.val]

RECURSIVE ApplyOps(_, _)
ApplyOps(heap, os) ==
    IF os = <<>> THEN heap ELSE ApplyOps(ApplyOp(heap, Head(os)), Tail(os))

\* append(dst, elems...): the memory operations it performs and the slice
\* it returns.  It stores in place when the capacity suffices; otherwise it
\* allocates a larger array and copies dst's elements before the new ones.
AppendOps(heap, dst, elems, live) ==
    LET need == dst.len + Len(elems) IN
    IF need <= Cap(heap, dst)
    THEN [ops   |-> [i \in 1..Len(elems) |-> OpStore(dst.arr, dst.len + i, elems[i])],
          slice |-> Slice(dst.arr, need)]
    ELSE LET a   == FreshArr(live)
             all == Elems(heap, dst, 0, dst.len) \o elems
         IN  [ops   |-> <<OpAlloc(a, GrowCap(Cap(heap, dst), need))>>
                          \o [i \in 1..need |-> OpStore(a, i, all[i])],
              slice |-> Slice(a, need)]
\* line 67: swapBuf = append(swapBuf, call)
Line67(heap, sb, c, live) == AppendOps(heap, sb, <<c>>, live)

\* line 72: append(swapBuf, existingCalls[1:callCount]...)
Line72(heap, sb, ex, cnt, live) == AppendOps(heap, sb, Elems(heap, ex, 1, cnt), live)

\* a slip in line 74: the newest existing record is left out
Line74DropsNewest(heap, sb, ex, live) ==
    AppendOps(heap, sb, Elems(heap, ex, Min(1, ex.len), ex.len), live)

\* a slip in line 74: the new call is appended after the existing records
Line74AppendsLast(heap, sb, ex, live) ==
    AppendOps(heap, Slice(sb.arr, 0),
              Elems(heap, ex, 0, ex.len) \o Elems(heap, sb, 0, sb.len), live)

\* line 74: append(swapBuf, existingCalls...)
Line74(heap, sb, ex, live) == AppendOps(heap, sb, Elems(heap, ex, 0, ex.len), live)

\* arrays no live slice refers to are garbage
Collect(heap, live) == [a \in ArrId |-> IF a \in live THEN heap[a] ELSE <<>>]

\* One iteration of the storeCalls loop body (lines 67-76) for the received
\* call c: the heap, recordedCalls and swapBuf it leaves.  held are the
\* arrays other goroutines still refer to.
StoreCall(heap, rc, sb, c, cnt, held) ==
    LET a1  == Line67(heap, sb, c, {rc.arr, sb.arr} \cup held)
        h1  == ApplyOps(heap, a1.ops)
        sb1 == a1.slice
        ex  == rc
        a2  == Line72(h1, sb1, ex, cnt, {ex.arr, sb1.arr} \cup held)
        h2  == IF ex.len >= cnt THEN ApplyOps(h1, a2.ops) ELSE h1
        rc2 == IF ex.len >= cnt THEN a2.slice ELSE rc
        a3  == Line74(h2, sb1, ex, {ex.arr, sb1.arr, rc2.arr} \cup held)
        h3  == ApplyOps(h2, a3.ops)
        rc3 == a3.slice
        sb3 == Slice(ex.arr, 0)
    IN  [heap |-> Collect(h3, {rc3.arr, sb3.arr} \cup held),
         recordedCalls |-> rc3, swapBuf |-> sb3]

(* ============================== routing ================================ *)
\* A request path, as the sequence of its segments.
Segment == {"favicon.ico", "recordedRequests", "configDelay", "x"}

Paths == {<<a>> : a \in Segment} \cup {<<a, b>> : a \in Segment, b \in Segment}

\* strings.Contains(req.URL.Path, word)
Contains(path, word) == \E i \in 1..Len(path) : path[i] = word

\* goroutines that exist besides the request handlers: main and storeCalls
BaseGoroutines == 2

\* a slip: the admission guard is tested after the special paths
RouteGuardLast(path, limit, numGoroutine) ==
    IF path = <<"favicon.ico">> THEN "favicon"
    ELSE IF Contains(path, "recordedRequests") THEN "inspect"
    ELSE IF Contains(path, "configDelay") THEN "config"
    ELSE IF limit > 0 /\ numGoroutine > limit THEN "reject"
    ELSE "capture"

\* a slip: every limit but zero is enforced
RouteLimitNonZero(path, limit, numGoroutine) ==
    IF limit # 0 /\ numGoroutine > limit THEN "reject"
    ELSE IF path = <<"favicon.ico">> THEN "favicon"
    ELSE IF Contains(path, "recordedRequests") THEN "inspect"
    ELSE IF Contains(path, "configDelay") THEN "config"
    ELSE "capture"

\* the chain with the configuration test ahead of the inspection test
RouteConfigFirst(path, limit, numGoroutine) ==
    IF limit > 0 /\ numGoroutine > limit THEN "reject"
    ELSE IF path = <<"favicon.ico">> THEN "favicon"
    ELSE IF Contains(path, "configDelay") THEN "config"
    ELSE IF Contains(path, "recordedRequests") THEN "inspect"
    ELSE "capture"

\* the chain with the configuration test ahead of the admission guard
RouteConfigUnguarded(path, limit, numGoroutine) ==
    IF Contains(path, "configDelay") /\ ~Contains(path, "recordedRequests")
       /\ path # <<"favicon.ico">> THEN "config"
    ELSE IF limit > 0 /\ numGoroutine > limit THEN "reject"
    ELSE IF path = <<"favicon.ico">> THEN "favicon"
    ELSE IF Contains(path, "recordedRequests") THEN "inspect"
    ELSE "capture"

\* the branch of recordRequest's if/else chain a request takes, given the
\* value runtime.NumGoroutine() returns
Route(path, limit, numGoroutine) ==
    IF limit > 0 /\ numGoroutine > limit THEN "reject"
    ELSE IF path = <<"favicon.ico">> THEN "favicon"
    ELSE IF Contains(path, "recordedRequests") THEN "inspect"
    ELSE IF Contains(path, "configDelay") THEN "config"
    ELSE "capture"

(* ========================= configuration ================================ *)
Digits == <<"0", "1", "2", "3", "4", "5", "6", "7", "8", "9">>

IsDigit(c) == \E d \in 1..10 : Digits[d] = c

DigitVal(c) == (CHOOSE d \in 1..10 : Digits[d] = c) - 1

RECURSIVE ParseDigits(_, _)
ParseDigits(s, acc) ==
    IF s = <<>> THEN acc ELSE ParseDigits(Tail(s), acc * 10 + DigitVal(Head(s)))

\* strconv.Atoi on a string given as its characters: an optional sign and at
\* least one digit, nothing else; ok is FALSE where Atoi returns an error
Atoi(s) ==
    LET body == IF s # <<>> /\ Head(s) \in {"-", "+"} THEN Tail(s) ELSE s
        good == body # <<>> /\ \A i \in 1..Len(body) : IsDigit(body[i])
        neg  == s # <<>> /\ Head(s) = "-"
    IN  [ok |-> good,
         num |-> IF ~good THEN 0
                 ELSE IF neg THEN 0 - ParseDigits(body, 0) ELSE ParseDigits(body, 0)]

\* a slip: a parameter that is no integer resets its field
SetFromQueryParamResets(param, val) ==
    IF param = <<>> THEN val ELSE Atoi(param).num

\* setFromQueryParam(param, &val): the value val holds afterwards
SetFromQueryParam(param, val) ==
    IF param # <<>> /\ Atoi(param).ok THEN Atoi(param).num ELSE val

\* the values a query parameter takes: absent (empty), malformed, integers
ParamValues == {<<>>, <<"x">>, <<"0">>, <<"3">>}

\* the parameters configDelay reads from the query (lines 105-108)
Params == {"delay", "variance", "chance", "limit"}

\* the queries sent to configDelay: each sets one parameter, the others
\* are absent; a query setting several acts as these do in turn
Queries ==
    {[p \in Params |-> IF p = q THEN v ELSE <<>>] : q \in Params, v \in ParamValues}

\* a query without parameters: query.Get gives "" for each
NoQuery == [p \in Params |-> <<>>]

\* the error setFromQueryParam returns (lines 82-84): strconv.Atoi's error for
\* a parameter that is present and not an integer, nil otherwise
SetFromQueryParamErr(param) ==
    IF param # <<>> /\ ~Atoi(param).ok THEN "numErr" ELSE ErrNil

\* line 109: the body of the configDelay response, written from the four
\* variables; the errors of lines 105-108 are not among its arguments
ConfigReply(dl, vr, ch, lim) == <<dl, vr, ch, lim>>

(* =============================== state ================================= *)
VARIABLES
    callCount,       \* flag -c: history capacity and channel capacity
    bufferRequest,   \* flag -b
    storePayload,    \* flag -s
    goroutinelimit,  \* flag -g, later set by configDelay?limit=
    delay,           \* chaos delay, ms
    variance,        \* chaos variance, ms
    chance,          \* chaos chance, percent
    heap,            \* backing arrays of the slices
    recordedCalls,   \* the history slice
    swapBuf,         \* storeCalls' spare slice
    callChan,        \* the buffered channel, oldest first
    cpc,             \* where storeCalls is
    call,            \* storeCalls' loop variable
    existingCalls,   \* storeCalls' local slice
    ops,             \* memory operations left of the append in progress
    res,             \* the slice that append returns
    pc,              \* where each request handler is
    route,           \* the branch each request took
    status,          \* the status code each response carries (0: none yet)
    out,             \* the digest locals of each capture handler
    stall,           \* the duration each handler sleeps, ms
    rd,              \* the slice header and index of each inspection loop
    seen,            \* the records each inspection wrote to its response
    sent,            \* every record that entered callChan, in the order sent
    req,             \* the request each handler was started for, until its
                     \* body is read or its handler returns
    echo,            \* the four values each configDelay response reports
    digestIn,        \* digest check: the body deliveries tried
    digestOut        \* digest check: the records the two modes produce

vars == <<callCount, bufferRequest, storePayload, goroutinelimit, delay,
          variance, chance, heap, recordedCalls, swapBuf, callChan, cpc, call,
          existingCalls, ops, res, pc, route, status, out, stall, rd, seen,
          sent, req, echo, digestIn, digestOut>>

flagVars == <<callCount, bufferRequest, storePayload>>
chaosVars == <<goroutinelimit, delay, variance, chance>>
storeVars == <<heap, recordedCalls, swapBuf, cpc, call, existingCalls, ops, res>>
digestVars == <<digestIn, digestOut>>
reqVars == <<req, echo>>

Handler == 1..MaxReq

\* the values of flag -g tried
GoLimits == {0, 3}

NoOut == DigestOut(0, <<>>, <<>>, ErrNil, 0, <<>>)
NoStall == <<>>
NoDigest == [stream |-> <<>>, buffer |-> <<>>]
NoRd == [arr |-> 0, len |-> 0, i |-> 0]

\* an http.Request as far as recordRequest reads it: URL.Path, URL.Query()
\* and what Body delivers
Request(path, query, body) == [path |-> path, query |-> query, body |-> body]

\* no request fixed yet for a handler
NoReq == Request(<<>>, NoQuery, <<>>)

\* the body deliveries the request handlers meet
PipeScripts ==
    { <<ReadResult(<<1>>, ErrEOF)>>,
      <<ReadResult(<<1>>, ErrNil), ReadResult(<<>>, ErrEOF)>>,
      <<ReadResult(<<1>>, ErrRead)>>,
      <<ReadResult(<<1>>, ErrNil), ReadResult(<<>>, ErrRead)>> }

\* main: flags parsed, channel and history made; storeCalls started and
\* its swapBuf made; no request yet
InitPipeline ==
    /\ callCount \in 1..MaxCap
    /\ bufferRequest \in BOOLEAN
    /\ storePayload \in BOOLEAN
    /\ goroutinelimit \in GoLimits
    /\ delay = 0 /\ variance = 0 /\ chance = 0
    /\ heap = [a \in ArrId |-> IF a \in {1, 2} THEN ZeroArray(callCount) ELSE <<>>]
    /\ recordedCalls = Slice(1, 0)
    /\ swapBuf = Slice(2, 0)
    /\ callChan = <<>>
    /\ cpc = "recv"
    /\ call = ZeroRecord
    /\ existingCalls = Slice(1, 0)
    /\ ops = <<>>
    /\ res = Slice(1, 0)
    /\ pc = [h \in Handler |-> "idle"]
    /\ route = [h \in Handler |-> "none"]
    /\ status = [h \in Handler |-> 0]
    /\ out = [h \in Handler |-> NoOut]
    /\ stall = [h \in Handler |-> NoStall]
    /\ rd = [h \in Handler |-> NoRd]
    /\ seen = [h \in Handler |-> <<>>]
    /\ sent = <<>>
    /\ req = [h \in Handler |-> NoReq]
    /\ echo = [h \in Handler |-> <<>>]

Init == InitPipeline /\ digestIn = <<>> /\ digestOut = NoDigest

(* ========================== request handlers =========================== *)
\* runtime.NumGoroutine() as handler h reads it: the base goroutines, the
\* handlers in flight, and h itself
NumGoroutine(h) ==
    BaseGoroutines + Cardinality({g \in Handler : pc[g] \notin {"idle", "done"}} \cup {h})

\* requests are numbered in the order they arrive
Arrives(h) == pc[h] = "idle" /\ \A g \in Handler : g < h => pc[g] # "idle"

\* the server has accepted a request for handler h; recordRequest has not
\* run its first test yet
Accepted(h) == req[h] # NoReq

\* net/http accepts a request, one of requests, and starts its handler
\* goroutine
Accept(h, requests) ==
    /\ Arrives(h) /\ ~Accepted(h)
    /\ \E r \in requests : req' = [req EXCEPT ![h] = r]
    /\ UNCHANGED <<flagVars, chaosVars, storeVars, digestVars, callChan, pc, route,
                   status, out, stall, rd, seen, sent, echo>>

\* the paths, queries and bodies the request of h may have
PathsOf(h) == IF Accepted(h) THEN {req[h].path} ELSE Paths
QueriesOf(h) == IF Accepted(h) THEN {req[h].query} ELSE Queries
BodiesOf(h) == IF Accepted(h) THEN {req[h].body} ELSE PipeScripts

\* the branches a request arriving now can take, over its paths
Branches(h) == {Route(path, goroutinelimit, NumGoroutine(h)) : path \in PathsOf(h)}

Takes(h, r) == r \in Branches(h)

\* lines 94-96: the admission guard refuses the request
Reject(h) ==
    /\ Arrives(h) /\ Takes(h, "reject")
    /\ route' = [route EXCEPT ![h] = "reject"]
    /\ status' = [status EXCEPT ![h] = 503]
    /\ pc' = [pc EXCEPT ![h] = "ret"]
    /\ UNCHANGED <<flagVars, reqVars, chaosVars, storeVars, digestVars, callChan, out,
                   stall, rd, seen, sent>>

\* lines 97-99
Favicon(h) ==
    /\ Arrives(h) /\ Takes(h, "favicon")
    /\ route' = [route EXCEPT ![h] = "favicon"]
    /\ status' = [status EXCEPT ![h] = 404]
    /\ pc' = [pc EXCEPT ![h] = "ret"]
    /\ UNCHANGED <<flagVars, reqVars, chaosVars, storeVars, digestVars, callChan, out,
                   stall, rd, seen, sent>>

\* lines 100-103, taken as one step: every record of recordedCalls is
\* written to the response
Inspect(h) ==
    /\ Arrives(h) /\ Takes(h, "inspect")
    /\ route' = [route EXCEPT ![h] = "inspect"]
    /\ status' = [status EXCEPT ![h] = 200]
    /\ seen' = [seen EXCEPT ![h] = Elems(heap, recordedCalls, 0, recordedCalls.len)]
    /\ pc' = [pc EXCEPT ![h] = "ret"]
    /\ UNCHANGED <<flagVars, reqVars, chaosVars, storeVars, digestVars, callChan, out,
                   stall, rd, sent>>

\* lines 104-110
Config(h) ==
    /\ Arrives(h) /\ Takes(h, "config")
    /\ \E query \in QueriesOf(h) :
          /\ delay' = SetFromQueryParam(query["delay"], delay)
          /\ variance' = SetFromQueryParam(query["variance"], variance)
          /\ chance' = SetFromQueryParam(query["chance"], chance)
          /\ goroutinelimit' = SetFromQueryParam(query["limit"], goroutinelimit)
    /\ echo' = [echo EXCEPT ![h] = ConfigReply(delay', variance', chance', goroutinelimit')]
    /\ req' = req
    /\ route' = [route EXCEPT ![h] = "config"]
    /\ status' = [status EXCEPT ![h] = 200]
    /\ pc' = [pc EXCEPT ![h] = "ret"]
    /\ UNCHANGED <<flagVars, storeVars, digestVars, callChan, out, stall, rd,
                   seen, sent>>

\* lines 112-147: the body is read and digested; a read error writes the
\* 500 header
CaptureWith(h, script) ==
    /\ Arrives(h) /\ Takes(h, "capture")
    /\ LET o == Digest(bufferRequest \/ storePayload, script) IN
          /\ out' = [out EXCEPT ![h] = o]
          /\ status' = [status EXCEPT ![h] = o.status]
    /\ req' = [req EXCEPT ![h] = NoReq]
    /\ route' = [route EXCEPT ![h] = "capture"]
    /\ pc' = [pc EXCEPT ![h] = "send"]
    /\ UNCHANGED <<flagVars, echo, chaosVars, storeVars, digestVars, callChan, stall,
                   rd, seen, sent>>

Capture(h) == \E script \in BodiesOf(h) : CaptureWith(h, script)

\* a slip: a send that gives up when the channel is full (select with a
\* default case) and goes on to the response
SendDropsWhenFull(h) ==
    /\ pc[h] = "send"
    /\ callChan' = IF Len(callChan) < callCount
                    THEN Append(callChan, Record(h, out[h])) ELSE callChan
    /\ sent' = IF Len(callChan) < callCount
                THEN Append(sent, Record(h, out[h])) ELSE sent
    /\ pc' = [pc EXCEPT ![h] = "respond"]
    /\ UNCHANGED <<flagVars, reqVars, chaosVars, storeVars, digestVars, route, status,
                   out, stall, rd, seen>>

\* lines 148-155: callChan <- requestRecord{...}; blocks while the channel
\* is full
Send(h) ==
    /\ pc[h] = "send"
    /\ Len(callChan) < callCount
    /\ callChan' = Append(callChan, Record(h, out[h]))
    /\ sent' = Append(sent, Record(h, out[h]))
    /\ pc' = [pc EXCEPT ![h] = "respond"]
    /\ UNCHANGED <<flagVars, reqVars, chaosVars, storeVars, digestVars, route, status,
                   out, stall, rd, seen>>

\* a slip: the test chance > 0 of line 159 is left out
StallsNoGuard(ch, draw1) == ch >= draw1

\* lines 159-160: whether the handler stalls, for the draw random.Intn(100)
Stalls(ch, draw1) == ch > 0 /\ ch >= draw1

\* a slip: the draw is halved together with the variance
StallForHalvesAll(dl, vr, draw2) == dl + (IF vr > 0 THEN (draw2 - vr) \div 2 ELSE 0)

\* the duration of the sleep for the draws made (lines 161-165)
StallFor(dl, vr, draw2) == dl + (IF vr > 0 THEN draw2 - vr \div 2 ELSE 0)

\* lines 156-167: the response body is written, then the chaos decision:
\* draw1 is random.Intn(100), draw2 is random.Intn(variance).  The handler
\* either goes to sleep or returns, and then its locals are gone.
Respond(h) ==
    /\ pc[h] = "respond"
    /\ out' = [out EXCEPT ![h] = NoOut]
    /\ \E stalls \in {Stalls(chance, draw1) : draw1 \in 0..99} :
          /\ IF stalls
             THEN /\ \E d \in {StallFor(delay, variance, draw2) :
                                   draw2 \in 0..Max(variance - 1, 0)} :
                        stall' = [stall EXCEPT ![h] = <<d>>]
                  /\ status' = [status EXCEPT ![h] = IF @ = 0 THEN 200 ELSE @]
                  /\ route' = route
                  /\ pc' = [pc EXCEPT ![h] = "sleep"]
             ELSE /\ stall' = stall
                  /\ status' = [status EXCEPT ![h] = 0]
                  /\ route' = [route EXCEPT ![h] = "none"]
                  /\ pc' = [pc EXCEPT ![h] = "done"]
    /\ UNCHANGED <<flagVars, reqVars, chaosVars, storeVars, digestVars, callChan, rd, seen,
                   sent>>

\* line 165: time.Sleep returns, and so does the handler
Wake(h) ==
    /\ pc[h] = "sleep"
    /\ pc' = [pc EXCEPT ![h] = "done"]
    /\ route' = [route EXCEPT ![h] = "none"]
    /\ status' = [status EXCEPT ![h] = 0]
    /\ stall' = [stall EXCEPT ![h] = NoStall]
    /\ UNCHANGED <<flagVars, reqVars, chaosVars, storeVars, digestVars, callChan, out, rd,
                   seen, sent>>
\* recordRequest returns from a branch that answers at once: the handler's
\* goroutine and its locals are gone
Return(h) ==
    /\ pc[h] = "ret"
    /\ pc' = [pc EXCEPT ![h] = "done"]
    /\ route' = [route EXCEPT ![h] = "none"]
    /\ status' = [status EXCEPT ![h] = 0]
    /\ stall' = [stall EXCEPT ![h] = NoStall]
    /\ seen' = [seen EXCEPT ![h] = <<>>]
    /\ echo' = [echo EXCEPT ![h] = <<>>]
    /\ req' = [req EXCEPT ![h] = NoReq]
    /\ UNCHANGED <<flagVars, chaosVars, storeVars, digestVars, callChan, out, rd,
                   sent>>

(* ============================= storeCalls ============================== *)
\* the arrays the inspection loops in progress refer to
Held == {rd[h].arr : h \in {g \in Handler : pc[g] \in {"hdr", "iter"}}}

\* a slip: the newest element is received first
ChanRecvNewest(ch) == [val |-> ch[Len(ch)], rest |-> SubSeq(ch, 1, Len(ch) - 1)]

\* receiving from a channel takes the element that has waited longest
ChanRecv(ch) == [val |-> Head(ch), rest |-> Tail(ch)]

\* a slip: the loop of storeCalls is left after the first record
ReceiveOnce ==
    /\ cpc = "recv"
    /\ callChan # <<>>
    /\ recordedCalls.len = 0
    /\ call' = ChanRecv(callChan).val
    /\ callChan' = ChanRecv(callChan).rest
    /\ cpc' = "store"
    /\ UNCHANGED <<flagVars, reqVars, chaosVars, digestVars, heap, recordedCalls, swapBuf,
                   existingCalls, ops, res, pc, route, status, out, stall, rd,
                   seen, sent>>

\* line 65: call := <-c
Receive ==
    /\ cpc = "recv"
    /\ callChan # <<>>
    /\ call' = ChanRecv(callChan).val
    /\ callChan' = ChanRecv(callChan).rest
    /\ cpc' = "store"
    /\ UNCHANGED <<flagVars, reqVars, chaosVars, digestVars, heap, recordedCalls, swapBuf,
                   existingCalls, ops, res, pc, route, status, out, stall, rd,
                   seen, sent>>

\* lines 67-76 taken as one step
Store ==
    /\ cpc = "store"
    /\ LET n == StoreCall(heap, recordedCalls, swapBuf, call, callCount, Held) IN
          /\ heap' = n.heap
          /\ recordedCalls' = n.recordedCalls
          /\ swapBuf' = n.swapBuf
    /\ call' = ZeroRecord
    /\ cpc' = "recv"
    /\ UNCHANGED <<flagVars, reqVars, chaosVars, digestVars, callChan, existingCalls, ops,
                   res, pc, route, status, out, stall, rd, seen, sent>>

\* the capture pipeline: requests on the generic path, with no admission
\* limit, and storeCalls
InitCapture == Init /\ goroutinelimit = 0

Next ==
    \/ \E h \in Handler : Capture(h)
    \/ \E h \in Handler : Send(h)
    \/ \E h \in Handler : Respond(h)
    \/ Receive
    \/ Store

Spec == InitCapture /\ [][Next]_vars

\* every branch of recordRequest, with one capacity and the streaming mode
InitConfig ==
    Init /\ callCount = 1 /\ bufferRequest = FALSE /\ storePayload = FALSE

NextConfig ==
    \/ Next
    \/ \E h \in Handler : Reject(h)
    \/ \E h \in Handler : Favicon(h)
    \/ \E h \in Handler : Inspect(h)
    \/ \E h \in Handler : Config(h)
    \/ \E h \in Handler : Wake(h)
    \/ \E h \in Handler : Return(h)

SpecConfig == InitConfig /\ [][NextConfig]_vars

(* ================= requests given by path, query and body ============== *)
\* a body delivered whole, with io.EOF
WholeBody == <<ReadResult(<<1>>, ErrEOF)>>

\* the query ?p=v
QueryOf(p, v) == [NoQuery EXCEPT ![p] = v]

\* the paths that tell the branches apart: each word alone, both special
\* words together, favicon.ico below another segment or above a special word
RoutePaths ==
    { <<"favicon.ico">>, <<"recordedRequests">>, <<"configDelay">>, <<"x">>,
      <<"recordedRequests", "configDelay">>, <<"configDelay", "recordedRequests">>,
      <<"x", "favicon.ico">>, <<"favicon.ico", "recordedRequests">>,
      <<"favicon.ico", "configDelay">> }

\* requests on these paths, and configDelay requests that set the limit or
\* the chance
RouteRequests ==
    {Request(path, NoQuery, WholeBody) : path \in RoutePaths}
        \cup {Request(<<"configDelay">>, QueryOf("limit", v), WholeBody) :
                  v \in {<<"-", "1">>, <<"3">>}}
        \cup {Request(<<"configDelay">>, QueryOf("chance", <<"3">>), WholeBody)}

AcceptRoute(h) == Accept(h, RouteRequests)

NextRoute ==
    \/ \E h \in Handler : AcceptRoute(h)
    \/ \E h \in Handler : Accepted(h) /\ Reject(h)
    \/ \E h \in Handler : Accepted(h) /\ Favicon(h)
    \/ \E h \in Handler : Accepted(h) /\ Inspect(h)
    \/ \E h \in Handler : Accepted(h) /\ Config(h)
    \/ \E h \in Handler : Accepted(h) /\ Capture(h)
    \/ \E h \in Handler : Send(h)
    \/ \E h \in Handler : Respond(h)
    \/ \E h \in Handler : Wake(h)
    \/ \E h \in Handler : Return(h)
    \/ Receive
    \/ Store

SpecRoute == InitConfig /\ [][NextRoute]_vars

(* ===================== configDelay requests in turn ==================== *)
\* configDelay requests with every combination of the four parameters
ParamRequests ==
    {Request(<<"configDelay">>, q, WholeBody) : q \in [Params -> ParamValues]}

\* a client that sends its next request when the last one has returned
AcceptParams(h) ==
    /\ \A g \in Handler : pc[g] \in {"idle", "done"}
    /\ Accept(h, ParamRequests)

NextParams ==
    \/ \E h \in Handler : AcceptParams(h)
    \/ \E h \in Handler : Accepted(h) /\ Config(h)
    \/ \E h \in Handler : Return(h)

SpecParams == InitConfig /\ [][NextParams]_vars

(* ============ the chaos decision as a step after the response ========== *)
\* a slip: the "received" line is written without waiting for the channel
WriteBodyUnsent(h) ==
    /\ pc[h] \in {"send", "respond"}
    /\ status' = [status EXCEPT ![h] = IF @ = 0 THEN 200 ELSE @]
    /\ out' = [out EXCEPT ![h] = NoOut]
    /\ pc' = [pc EXCEPT ![h] = "decide"]
    /\ UNCHANGED <<flagVars, reqVars, chaosVars, storeVars, digestVars, callChan,
                   route, stall, rd, seen, sent>>

\* line 156: the "received" line is written to the response (with the
\* implicit 200 header unless the 500 header was written)
WriteBody(h) ==
    /\ pc[h] = "respond"
    /\ status' = [status EXCEPT ![h] = IF @ = 0 THEN 200 ELSE @]
    /\ out' = [out EXCEPT ![h] = NoOut]
    /\ pc' = [pc EXCEPT ![h] = "decide"]
    /\ UNCHANGED <<flagVars, reqVars, chaosVars, storeVars, digestVars, callChan,
                   route, stall, rd, seen, sent>>

\* lines 159-167: the chaos decision, for the draws random.Intn(100) and
\* random.Intn(variance); the handler goes to sleep or returns
Decide(h) ==
    /\ pc[h] = "decide"
    /\ \E stalls \in {Stalls(chance, draw1) : draw1 \in 0..99} :
          /\ IF stalls
             THEN /\ \E d \in {StallFor(delay, variance, draw2) :
                                   draw2 \in 0..Max(variance - 1, 0)} :
                        stall' = [stall EXCEPT ![h] = <<d>>]
                  /\ status' = status
                  /\ route' = route
                  /\ pc' = [pc EXCEPT ![h] = "sleep"]
             ELSE /\ stall' = stall
                  /\ status' = [status EXCEPT ![h] = 0]
                  /\ route' = [route EXCEPT ![h] = "none"]
                  /\ pc' = [pc EXCEPT ![h] = "done"]
    /\ UNCHANGED <<flagVars, reqVars, chaosVars, storeVars, digestVars, callChan,
                   out, rd, seen, sent>>

\* capture requests, and configDelay requests that set the chaos fields
ChaosQueries ==
    { [QueryOf("delay", <<"5", "0">>) EXCEPT !["chance"] = <<"1", "0", "0">>],
      QueryOf("variance", <<"3">>),
      QueryOf("variance", <<"-", "1">>),
      QueryOf("chance", <<"0">>),
      QueryOf("chance", <<"3">>) }

ChaosRequests ==
    {Request(<<"x">>, NoQuery, WholeBody)}
        \cup {Request(<<"configDelay">>, q, WholeBody) : q \in ChaosQueries}

AcceptChaos(h) == Accept(h, ChaosRequests)

NextChaos ==
    \/ \E h \in Handler : AcceptChaos(h)
    \/ \E h \in Handler : Accepted(h) /\ Config(h)
    \/ \E h \in Handler : Accepted(h) /\ Capture(h)
    \/ \E h \in Handler : Send(h)
    \/ \E h \in Handler : WriteBody(h)
    \/ \E h \in Handler : Decide(h)
    \/ \E h \in Handler : Wake(h)
    \/ \E h \in Handler : Return(h)
    \/ Receive
    \/ Store

InitChaos == InitConfig /\ goroutinelimit = 0

SpecChaos == InitChaos /\ [][NextChaos]_vars

\* a body whose read fails after one byte
FailedBody == <<ReadResult(<<1>>, ErrRead)>>

\* capture requests whose body arrives whole or fails, and one configDelay
\* request after which the draw of line 160 can go either way
OrderRequests ==
    { Request(<<"x">>, NoQuery, WholeBody),
      Request(<<"x">>, NoQuery, FailedBody),
      Request(<<"configDelay">>,
              [QueryOf("delay", <<"5">>) EXCEPT !["chance"] = <<"3">>], WholeBody) }

AcceptOrder(h) == Accept(h, OrderRequests)

NextOrder ==
    \/ \E h \in Handler : AcceptOrder(h)
    \/ \E h \in Handler : Accepted(h) /\ Config(h)
    \/ \E h \in Handler : Accepted(h) /\ Capture(h)
    \/ \E h \in Handler : Send(h)
    \/ \E h \in Handler : WriteBody(h)
    \/ \E h \in Handler : Decide(h)
    \/ \E h \in Handler : Wake(h)
    \/ \E h \in Handler : Return(h)
    \/ Receive
    \/ Store

SpecOrder == InitChaos /\ [][NextOrder]_vars

(* ===================== the pipeline under fair scheduling =============== *)
\* the streaming mode, with the capacity at which handlers block soonest
InitLive ==
    InitCapture /\ callCount = 1 /\ bufferRequest = FALSE /\ storePayload = FALSE

\* Store can be taken whenever cpc = "store" (StoreCall is total for
\* callCount >= 1) and is the only step that changes cpc from "store", so
\* weak fairness of Store is weak fairness of this step of cpc.
StoreReturns == cpc = "store" /\ cpc' = "recv"

\* the Go scheduler runs every goroutine that can run: storeCalls (started
\* on line 53 and never returning) and each handler past its body read.
\* Requests themselves need not arrive.
Fairness ==
    /\ WF_vars(Receive)
    /\ WF_cpc(StoreReturns)
    /\ \A h \in Handler : WF_vars(Send(h)) /\ WF_vars(Respond(h))

SpecLive == InitLive /\ [][Next]_vars /\ Fairness

(* ================== storeCalls, one memory access at a time ============ *)
\* arrays some slice variable or inspection loop refers to
Live == {recordedCalls.arr, swapBuf.arr, existingCalls.arr, res.arr} \cup Held

\* line 67 begins: the stores of append(swapBuf, call) are due
StoreL67 ==
    /\ cpc = "store"
    /\ LET a == Line67(heap, swapBuf, call, Live) IN ops' = a.ops /\ res' = a.slice
    /\ cpc' = "l67"
    /\ UNCHANGED <<flagVars, reqVars, chaosVars, digestVars, heap, recordedCalls, swapBuf,
                   call, existingCalls, callChan, pc, route, status, out, stall,
                   rd, seen, sent>>

\* one allocation or element store of the append in progress
StoreMem ==
    /\ ops # <<>>
    /\ heap' = ApplyOp(heap, Head(ops))
    /\ ops' = Tail(ops)
    /\ UNCHANGED <<flagVars, reqVars, chaosVars, digestVars, recordedCalls, swapBuf, cpc,
                   call, existingCalls, res, callChan, pc, route, status, out,
                   stall, rd, seen, sent>>

\* line 67 ends (swapBuf assigned), line 69, and the test of line 70: the
\* append of line 72 or, when the history is not full, of line 74 begins
StoreL69 ==
    /\ cpc = "l67" /\ ops = <<>>
    /\ swapBuf' = res
    /\ existingCalls' = recordedCalls
    /\ LET live == {recordedCalls.arr, res.arr} \cup Held
           full == recordedCalls.len >= callCount
           a    == IF full THEN Line72(heap, res, recordedCalls, callCount, live)
                   ELSE Line74(heap, res, recordedCalls, live)
       IN  /\ ops' = a.ops
           /\ res' = a.slice
           /\ cpc' = IF full THEN "l72" ELSE "l74"
    /\ UNCHANGED <<flagVars, reqVars, chaosVars, digestVars, heap, recordedCalls, call,
                   callChan, pc, route, status, out, stall, rd, seen, sent>>

\* line 72 ends (recordedCalls assigned); the append of line 74 begins
StoreL72 ==
    /\ cpc = "l72" /\ ops = <<>>
    /\ recordedCalls' = res
    /\ LET a == Line74(heap, swapBuf, existingCalls,
                       {res.arr, swapBuf.arr, existingCalls.arr} \cup Held)
       IN  ops' = a.ops /\ res' = a.slice
    /\ cpc' = "l74"
    /\ UNCHANGED <<flagVars, reqVars, chaosVars, digestVars, heap, swapBuf, call,
                   existingCalls, callChan, pc, route, status, out, stall, rd,
                   seen, sent>>

\* line 74 ends (recordedCalls assigned) and line 76; back to the receive
StoreL74 ==
    /\ cpc = "l74" /\ ops = <<>>
    /\ recordedCalls' = res
    /\ swapBuf' = Slice(existingCalls.arr, 0)
    /\ existingCalls' = Slice(res.arr, 0)
    /\ heap' = Collect(heap, {res.arr, existingCalls.arr} \cup Held)
    /\ call' = ZeroRecord
    /\ cpc' = "recv"
    /\ UNCHANGED <<flagVars, reqVars, chaosVars, digestVars, ops, res, callChan, pc, route,
                   status, out, stall, rd, seen, sent>>

(* ============== the inspection loop, one read at a time ================ *)
\* what a read outside the array, or of a slot while it is being stored,
\* may give: memory that is no record of the program
CorruptRecord == [id |-> 0 - 1, PayloadSize |-> 0, PayloadHash |-> <<>>, Payload |-> <<>>]

\* line 101 reads the slice header of recordedCalls, unsynchronised: first
\* the array pointer ...
InspectPtr(h) ==
    /\ Arrives(h) /\ Takes(h, "inspect")
    /\ route' = [route EXCEPT ![h] = "inspect"]
    /\ rd' = [rd EXCEPT ![h] = [arr |-> recordedCalls.arr, len |-> 0, i |-> 0]]
    /\ pc' = [pc EXCEPT ![h] = "hdr"]
    /\ req' = [req EXCEPT ![h] = NoReq]
    /\ UNCHANGED <<flagVars, echo, chaosVars, storeVars, digestVars, callChan, status,
                   out, stall, seen, sent>>

\* ... then the length
InspectLen(h) ==
    /\ pc[h] = "hdr"
    /\ rd' = [rd EXCEPT ![h].len = recordedCalls.len]
    /\ pc' = [pc EXCEPT ![h] = "iter"]
    /\ UNCHANGED <<flagVars, reqVars, chaosVars, storeVars, digestVars, callChan, route,
                   status, out, stall, seen, sent>>

\* the values the read of element i (1-based) of array a may give
ElemRead(a, i) ==
    IF i > Len(heap[a]) THEN {CorruptRecord}
    ELSE {heap[a][i]} \cup
         (IF ops # <<>> /\ Head(ops).op = "store" /\ Head(ops).arr = a /\ Head(ops).idx = i
          THEN {CorruptRecord} ELSE {})

\* lines 101-102: one iteration copies one element and writes it out
InspectElem(h) ==
    /\ pc[h] = "iter" /\ rd[h].i < rd[h].len
    /\ \E v \in ElemRead(rd[h].arr, rd[h].i + 1) : seen' = [seen EXCEPT ![h] = Append(@, v)]
    /\ rd' = [rd EXCEPT ![h].i = @ + 1]
    /\ UNCHANGED <<flagVars, reqVars, chaosVars, storeVars, digestVars, callChan, pc, route,
                   status, out, stall, sent>>

\* the loop ends
InspectEnd(h) ==
    /\ pc[h] = "iter" /\ rd[h].i = rd[h].len
    /\ rd' = [rd EXCEPT ![h] = NoRd]
    /\ status' = [status EXCEPT ![h] = 200]
    /\ pc' = [pc EXCEPT ![h] = "ret"]
    /\ UNCHANGED <<flagVars, reqVars, chaosVars, storeVars, digestVars, callChan, route,
                   out, stall, seen, sent>>

\* capture and inspection requests against storeCalls, every access to the
\* shared slice and its arrays a step of its own
NextRace ==
    \/ \E h \in Handler : Capture(h)
    \/ \E h \in Handler : Send(h)
    \/ \E h \in Handler : Respond(h)
    \/ \E h \in Handler : Return(h)
    \/ \E h \in Handler : InspectPtr(h)
    \/ \E h \in Handler : InspectLen(h)
    \/ \E h \in Handler : InspectElem(h)
    \/ \E h \in Handler : InspectEnd(h)
    \/ Receive
    \/ StoreL67
    \/ StoreMem
    \/ StoreL69
    \/ StoreL72
    \/ StoreL74

InitRace == Init /\ goroutinelimit = 0 /\ bufferRequest = FALSE /\ storePayload = FALSE

SpecRace == InitRace /\ [][NextRace]_vars

(* ===================== the two digest modes side by side =============== *)
\* the body deliveries the digest modes are compared on
DigestScripts == ScriptsOf(Byte, MaxReads, MaxChunk)

InitDigest ==
    /\ InitPipeline /\ callCount = 1 /\ goroutinelimit = 0
    /\ digestIn \in {<<s>> : s \in DigestScripts}
    /\ digestOut = NoDigest

\* the streaming branch and the record built from it, on the delivery
DigestStreaming ==
    /\ digestOut.stream = <<>>
    /\ digestOut' = [digestOut EXCEPT !.stream = <<Record(0, StreamingDigest(digestIn[1]))>>]
    /\ UNCHANGED <<flagVars, reqVars, chaosVars, storeVars, callChan, pc, route, status,
                   out, stall, rd, seen, sent, digestIn>>

\* the buffered branch and the record built from it, on the same delivery
DigestBuffered ==
    /\ digestOut.buffer = <<>>
    /\ digestOut' = [digestOut EXCEPT !.buffer = <<Record(0, BufferedDigest(digestIn[1]))>>]
    /\ UNCHANGED <<flagVars, reqVars, chaosVars, storeVars, callChan, pc, route, status,
                   out, stall, rd, seen, sent, digestIn>>

\* a capture request whose body is the delivery, in the mode the flags set
DigestCapture == CaptureWith(1, digestIn[1])

NextDigest ==
    \/ DigestStreaming
    \/ DigestBuffered
    \/ DigestCapture
    \/ \E h \in Handler : Send(h)
    \/ Receive
    \/ Store

SpecDigest == InitDigest /\ [][NextDigest]_vars

(* ============================ observations ============================= *)
\* the history as the inspection endpoint lists it
History == Elems(heap, recordedCalls, 0, recordedCalls.len)

Ids(records) == [i \in 1..Len(records) |-> records[i].id]

\* the ids whose records storeCalls has inserted, in the order they were
\* enqueued: all that were sent but those still queued or just received
Inserted ==
    SubSeq(Ids(sent), 1, Len(sent) - Len(callChan) - (IF cpc = "recv" THEN 0 ELSE 1))

\* the first n elements of a sequence
Take(s, n) == SubSeq(s, 1, Min(n, Len(s)))

InSeq(x, s) == \E i \in 1..Len(s) : s[i] = x

(* ============================== claims ================================= *)
\* C1 (as claimed): in every reachable state the length of the history
\* never exceeds the capacity callCount.
C1_LengthWithinCapacity == recordedCalls.len <= callCount

\* C2 (as claimed): once more than callCount records have been inserted,
\* the history holds exactly the callCount most recently enqueued records,
\* newest first.
C2_KeepsNewestOnly ==
    (cpc = "recv" /\ Len(Inserted) > callCount)
        => Ids(History) = Take(Reverse(Inserted), callCount)

\* C3 (as claimed): no record is ever enqueued for a request whose body read
\* failed with a non-EOF error (the request answered with status 500).
C3_NoRecordAfterReadError ==
    \A h \in Handler : status[h] = 500 => ~InSeq(h, Ids(sent))

\* C5: while no more than callCount records have been inserted, the history
\* holds exactly the inserted records, newest first, none evicted.
C5_HoldsAllUpToCapacity ==
    Len(Inserted) <= callCount => Ids(History) = Reverse(Inserted)

C5_Witness ==
    /\ callCount >= 2 /\ cpc = "recv"
    /\ Len(Inserted) = callCount
    /\ Ids(History) = Reverse(Inserted)

\* C6: after every completed insertion the history is in strict newest-first
\* order: its first record is the one inserted last, each record was enqueued
\* after all the records that follow it, and no record appears twice.
C6_NewestFirst ==
    (cpc = "recv" /\ Len(Inserted) > 0) =>
        LET ids == Ids(History)
            pos(x) == CHOOSE k \in 1..Len(Inserted) : Inserted[k] = x
        IN  /\ ids # <<>>
            /\ \A i \in 1..Len(ids) : InSeq(ids[i], Inserted)
            /\ ids[1] = Inserted[Len(Inserted)]
            /\ \A i, j \in 1..Len(ids) : i < j => pos(ids[i]) > pos(ids[j])

C6_Witness ==
    /\ cpc = "recv" /\ Len(Inserted) >= 3
    /\ Ids(History)[1] = Inserted[Len(Inserted)]
    /\ Inserted # <<1, 2, 3>>

\* C7: records are inserted in exactly the order in which the handlers
\* enqueued them: the channel holds the most recently enqueued records in
\* enqueue order, the record being inserted is the one enqueued just before
\* them, and the i-th record of the history is the i-th most recently
\* enqueued of the inserted ones.
C7_InsertionOrderIsQueueOrder ==
    LET n == Len(sent) - Len(callChan) IN
    /\ callChan = SubSeq(sent, n + 1, Len(sent))
    /\ cpc # "recv" => (n >= 1 /\ call = sent[n])
    /\ \A i \in 1..Len(History) :
          i <= Len(Inserted) /\ History[i].id = Inserted[Len(Inserted) + 1 - i]

C7_Witness ==
    /\ Len(sent) >= 2 /\ sent[1].id > sent[2].id
    /\ cpc = "recv" /\ callChan = <<>>
    /\ Len(History) >= 2 /\ History[1] = sent[2] /\ History[2] = sent[1]
\* C4 (as claimed): what an inspection request has read when its loop ends
\* is a contiguous newest-first run of the records sent so far: no
\* duplicate, no gap, no corrupted entry.
C4_ReaderSeesSnapshot ==
    \A h \in Handler :
        (pc[h] = "ret" /\ route[h] = "inspect") =>
            \E a \in 1..(Len(sent) + 1), b \in 0..Len(sent) :
                seen[h] = Reverse(SubSeq(sent, a, b))

\* C8 (as claimed): for a body delivered without a read error, the
\* streaming and the buffered branch give the same hex digest and the same
\* payload size, however the delivery is cut into reads.
C8_ModesAgree ==
    LET s == digestIn[1] IN
    (digestOut.stream # <<>> /\ digestOut.buffer # <<>> /\ s[Len(s)].err = ErrEOF) =>
        /\ digestOut.stream[1].PayloadHash = digestOut.buffer[1].PayloadHash
        /\ digestOut.stream[1].PayloadSize = digestOut.buffer[1].PayloadSize

\* C9: the record a handler has just sent, after a body read that ended
\* without a non-EOF error, carries as PayloadSize the number of bytes the
\* handler consumed and as PayloadHash the hex digest of exactly those bytes.
C9_RecordMatchesConsumed ==
    \A h \in Handler :
        (pc[h] = "respond" /\ out[h].readErr \in {ErrNil, ErrEOF}) =>
            \E i \in 1..Len(sent) :
                /\ sent[i].id = h
                /\ sent[i].PayloadSize = Len(out[h].consumed)
                /\ sent[i].PayloadHash = EncodeToString(Sum256(out[h].consumed))

C9_Witness ==
    LET s == digestIn[1] IN
    /\ ~bufferRequest /\ ~storePayload
    /\ pc[1] = "respond"
    /\ Len(s) >= 3 /\ s[Len(s)] = ReadResult(<<>>, ErrEOF)
    /\ out[1].consumed = <<1, 2>>
    /\ sent[1].PayloadSize = 2

\* C10: a request that arrives while goroutinelimit > 0 and the goroutine
\* count exceeds it takes the reject branch; taking it sets the 503 status
\* and nothing else (no digest, no record, no stall, history, channel and
\* chaos fields unchanged); and a rejected request does nothing afterwards
\* but return.
C10_RejectedOnlyAnswered ==
    [][\A h \in Handler :
          /\ (pc[h] = "idle" /\ pc'[h] # "idle" /\ goroutinelimit > 0
                 /\ NumGoroutine(h) > goroutinelimit)
                => route'[h] = "reject"
          /\ (route[h] # "reject" /\ route'[h] = "reject")
                => /\ status'[h] = 503 /\ pc'[h] = "ret"
                   /\ out'[h] = NoOut /\ stall'[h] = NoStall /\ seen'[h] = <<>>
                   /\ UNCHANGED <<callChan, sent, storeVars, chaosVars>>
          /\ route[h] = "reject"
                => /\ pc'[h] \in {"ret", "done"}
                   /\ out'[h] = NoOut /\ stall'[h] = NoStall
                   /\ ~InSeq(h, Ids(sent'))
      ]_vars

C10_Witness ==
    \E h, g \in Handler :
        /\ route[h] = "reject" /\ status[h] = 503
        /\ pc[g] = "sleep" /\ chance > 0 /\ goroutinelimit > 0

\* the handlers that have been started and have not returned
InFlight == {h \in Handler : pc[h] \notin {"idle", "done"} \/ Accepted(h)}

\* C11: while goroutinelimit is zero or negative no request takes the reject
\* branch, however many handlers are in flight.
C11_UnlimitedNeverRejects ==
    [][\A h \in Handler :
          (goroutinelimit <= 0 /\ route[h] # "reject") => route'[h] # "reject"
      ]_vars

C11_Witness ==
    /\ goroutinelimit < 0
    /\ InFlight = Handler
    /\ \E h \in Handler : route[h] = "capture" /\ pc[h] = "send"
    /\ \A h \in Handler : route[h] # "reject"

\* C12: a capture handler that takes its chaos decision while chance is 0
\* (or less) never stalls, whatever delay, variance and the draw are; one
\* that takes it while chance is 100 stalls, whatever the draw is.
C12_ChanceBoundaries ==
    [][\A h \in Handler :
          (pc[h] = "decide" /\ pc'[h] # "decide") =>
              /\ chance <= 0 => (pc'[h] = "done" /\ stall'[h] = NoStall)
              /\ chance = 100 => (pc'[h] = "sleep" /\ stall'[h] # NoStall)
      ]_vars

C12_Witness ==
    \E h, g \in Handler :
        /\ pc[h] = "sleep" /\ chance = 100 /\ stall[h] = <<50>>
        /\ pc[g] = "done" /\ InSeq(g, Ids(sent))

\* C13: the duration a handler is put to sleep for lies between
\* delay - variance/2 and delay + variance - 1 - variance/2 when variance is
\* positive and is exactly delay otherwise; with delay 50, chance 100 and
\* variance 0 every capture handler that decides is put to sleep for at
\* least 50 ms.
C13_StallDuration ==
    [][\A h \in Handler :
          /\ (pc[h] = "decide" /\ pc'[h] = "sleep") =>
                LET d == stall'[h][1] IN
                IF variance > 0
                THEN /\ d >= delay - variance \div 2
                     /\ d <= delay + variance - 1 - variance \div 2
                ELSE d = delay
          /\ (pc[h] = "decide" /\ pc'[h] # "decide"
                 /\ delay = 50 /\ chance = 100 /\ variance = 0) =>
                (pc'[h] = "sleep" /\ stall'[h][1] >= 50)
      ]_vars

C13_Witness ==
    \E h \in Handler :
        /\ delay = 50 /\ variance = 3 /\ chance = 100
        /\ pc[h] = "sleep" /\ stall[h] = <<51>>

\* the integer a parameter value of ParamValues denotes, if it denotes one
Denotes(v) == IF v = <<"0">> THEN <<0>> ELSE IF v = <<"3">> THEN <<3>> ELSE <<>>

\* the value a field holds after a request carrying v for it
FieldAfter(v, old) == IF Denotes(v) # <<>> THEN Denotes(v)[1] ELSE old

\* C14: a configDelay request sets each of delay, variance, chance and limit
\* whose parameter is present and an integer to that integer and leaves each
\* field whose parameter is absent or malformed as it was, whatever the
\* other parameters are; it is answered 200 with the four resulting values.
C14_EachParameterOnItsOwn ==
    [][\A h \in Handler :
          (route[h] # "config" /\ route'[h] = "config") =>
              LET q == req[h].query IN
              /\ delay' = FieldAfter(q["delay"], delay)
              /\ variance' = FieldAfter(q["variance"], variance)
              /\ chance' = FieldAfter(q["chance"], chance)
              /\ goroutinelimit' = FieldAfter(q["limit"], goroutinelimit)
              /\ status'[h] = 200
              /\ echo'[h] = <<delay', variance', chance', goroutinelimit'>>
      ]_vars

C14_Witness ==
    \E h \in Handler :
        /\ pc[h] = "ret" /\ route[h] = "config"
        /\ req[h].query = [delay |-> <<"3">>, variance |-> <<"x">>,
                            chance |-> <<"0">>, limit |-> <<>>]
        /\ status[h] = 200 /\ echo[h] = <<3, 3, 0, 3>>

\* the parameters of a query for which setFromQueryParam returns an error
Malformed(q) == {p \in Params : SetFromQueryParamErr(q[p]) # ErrNil}

\* the query without its malformed parameters
WithoutMalformed(q) == [p \in Params |-> IF p \in Malformed(q) THEN <<>> ELSE q[p]]

\* what the caller of a configDelay request with query q receives when the
\* fields are dl, vr, ch, lim: the status and the body
ConfigOutcome(q, dl, vr, ch, lim) ==
    <<200, ConfigReply(SetFromQueryParam(q["delay"], dl),
                       SetFromQueryParam(q["variance"], vr),
                       SetFromQueryParam(q["chance"], ch),
                       SetFromQueryParam(q["limit"], lim))>>

\* C15 (as claimed): the caller of a configDelay request with a non-integer
\* parameter sees the error: what it receives differs from what the same
\* request without that parameter would have received.
C15_ParseErrorSurfaced ==
    [][\A h \in Handler :
          (route[h] # "config" /\ route'[h] = "config"
              /\ Malformed(req[h].query) # {}) =>
              <<status'[h], echo'[h]>> #
                  ConfigOutcome(WithoutMalformed(req[h].query),
                                delay, variance, chance, goroutinelimit)
      ]_vars

\* the record storeCalls holds between its receive and its insertion
InHand == IF cpc = "recv" THEN <<>> ELSE <<call>>

\* C16: callChan never holds more than callCount records; a handler at its
\* send while callChan is full takes no step (its record is kept, its
\* response is not written) and has written the response only after its
\* record entered the channel; and the records sent are, each once and in
\* the order sent, those in the history, the one in storeCalls' hand and
\* those in the channel.
C16_BoundedQueueBlocks ==
    /\ [](/\ Len(callChan) <= callCount
          /\ sent = Reverse(History) \o InHand \o callChan
          /\ \A h \in Handler :
                /\ pc[h] = "send" => ~InSeq(h, Ids(sent))
                /\ pc[h] = "respond" => InSeq(h, Ids(sent)))
    /\ [][\A h \in Handler :
             (pc[h] = "send" /\ Len(callChan) = callCount) =>
                 /\ pc'[h] = "send" /\ out'[h] = out[h] /\ status'[h] = status[h]
                 /\ ~InSeq(h, Ids(sent'))
         ]_vars

C16_Witness ==
    \E h \in Handler :
        /\ callCount = 2 /\ Len(callChan) = callCount
        /\ pc[h] = "send" /\ cpc = "recv"

\* ---- C17 ----
\* the guard as the claim words it: a positive limit that the live count exceeds
OverLimit(h) == goroutinelimit > 0 /\ NumGoroutine(h) > goroutinelimit

Special == {"favicon", "inspect", "config"}

\* C17: every request takes exactly one branch, chosen in the order admission
\* guard, favicon, inspection, configuration, generic capture, so that a path
\* with both "recordedRequests" and "configDelay" is served as inspection;
\* only a generic capture request enters the queue or stalls, and the steps
\* of favicon, inspection and configuration requests leave the queue and the
\* history as they were.
C17_RoutePriority ==
    [][\A h \in Handler :
        /\ (route[h] = "none" /\ route'[h] # "none") =>
              /\ pc[h] = "idle" /\ Accepted(h)
              /\ route'[h] =
                    IF OverLimit(h) THEN "reject"
                    ELSE IF req[h].path = <<"favicon.ico">> THEN "favicon"
                    ELSE IF Contains(req[h].path, "recordedRequests") THEN "inspect"
                    ELSE IF Contains(req[h].path, "configDelay") THEN "config"
                    ELSE "capture"
              /\ (/\ ~OverLimit(h)
                  /\ Contains(req[h].path, "recordedRequests")
                  /\ Contains(req[h].path, "configDelay")) => route'[h] = "inspect"
        /\ route[h] # "none" => route'[h] \in {route[h], "none"}
        /\ (~InSeq(h, Ids(sent)) /\ InSeq(h, Ids(sent'))) => route[h] = "capture"
        /\ (stall'[h] # <<>> /\ stall'[h] # stall[h]) => route[h] = "capture"
        /\ (route'[h] \in Special /\ (route[h] # route'[h] \/ pc'[h] # pc[h])) =>
              /\ callChan' = callChan /\ sent' = sent
              /\ History' = History
              /\ stall'[h] = <<>>
        /\ (route[h] \in Special /\ pc'[h] # pc[h]) =>
              /\ callChan' = callChan /\ sent' = sent
              /\ History' = History
      ]_vars

\* a request naming both special words was served as inspection, one naming
\* favicon.ico above configDelay as configuration, and a capture request's
\* record is the only one that entered the queue
C17_Witness ==
    \E a, b, c \in Handler :
        /\ route[a] = "inspect" /\ pc[a] = "ret"
        /\ req[a].path = <<"configDelay", "recordedRequests">>
        /\ route[b] = "config" /\ pc[b] = "ret"
        /\ req[b].path = <<"favicon.ico", "configDelay">>
        /\ Ids(sent) = <<c>> /\ c \notin {a, b}

\* ---- C18 ----
\* the steps of a capture request, as moves of its handler
CaptureOrder ==
    { <<"idle", "send">>, <<"send", "respond">>, <<"respond", "decide">>,
      <<"decide", "sleep">>, <<"decide", "done">>, <<"sleep", "done">> }

\* C18: on the generic capture path the body is consumed and digested, then
\* the record is enqueued, then the response body is written, and only then
\* is the chaos decision taken and the stall, if any, performed; the decision
\* is taken at most once per request and only for a request whose record
\* was enqueued.
C18_CaptureStepOrder ==
    [][\A h \in Handler :
        (route[h] = "capture" \/ route'[h] = "capture") =>
          /\ pc'[h] # pc[h] => <<pc[h], pc'[h]>> \in CaptureOrder
          /\ (pc[h] = "idle" /\ pc'[h] = "send") =>
                /\ \E buffered \in BOOLEAN : out'[h] = Digest(buffered, req[h].body)
                /\ req'[h] = NoReq
                /\ ~InSeq(h, Ids(sent'))
                /\ stall'[h] = NoStall
          /\ (pc[h] = "send" /\ pc'[h] = "respond") =>
                /\ sent' = Append(sent, Record(h, out[h]))
                /\ status'[h] = status[h] /\ status[h] # 200
                /\ stall'[h] = NoStall
          /\ (pc[h] = "respond" /\ pc'[h] = "decide") =>
                /\ InSeq(h, Ids(sent))
                /\ status'[h] \in {200, 500} /\ stall'[h] = NoStall
          /\ (pc[h] = "decide" /\ pc'[h] # "decide") =>
                /\ InSeq(h, Ids(sent))
                /\ status[h] \in {200, 500}
          /\ stall'[h] # stall[h] =>
                \/ pc[h] = "decide" /\ pc'[h] = "sleep"
                \/ pc[h] = "sleep" /\ pc'[h] = "done" /\ stall'[h] = NoStall
      ]_vars

\* one request is asleep after its answer, its record already in the history,
\* while another, whose read failed, has been enqueued and answered and is
\* about to take its decision
C18_Witness ==
    \E h, g \in Handler :
        /\ pc[h] = "sleep" /\ stall[h] # NoStall /\ status[h] = 200
        /\ InSeq(h, Ids(History))
        /\ pc[g] = "decide" /\ status[g] = 500 /\ InSeq(g, Ids(sent))

\* ---- C19 ----
Responded(h) == pc[h] \in {"sleep", "done"}

\* C19: with the consumer scheduled fairly and a capacity of at least 1,
\* every handler that has its record ready, whether the channel is full or
\* not, eventually sends it and writes its response, and the record it sent
\* is eventually in the history; the consumer is never stuck, since whenever
\* records wait in the channel it comes to receive and store all of them,
\* whatever bodies and read errors the requests brought.
C19_ConsumerDrains ==
    /\ \A h \in Handler :
          (pc[h] = "send") ~> (Responded(h) /\ InSeq(h, Ids(History)))
    /\ (callChan # <<>>) ~> (callChan = <<>> /\ cpc = "recv")

\* a handler waits on a full channel while the consumer is storing a record
\* and an earlier record is already in the history
C19_Witness ==
    \E h \in Handler :
        /\ pc[h] = "send" /\ Len(callChan) = callCount
        /\ cpc = "store" /\ call.id # h

\* ---- C20 ----
\* handler h takes its first step: recordRequest runs its if/else chain
Starts(h) == pc[h] = "idle" /\ pc'[h] # "idle"

\* C20: the admission guard is tested before the configuration route: a
\* configuration-path request that arrives while goroutinelimit > 0 and the
\* live goroutine count exceeds it is answered 503 and changes none of
\* delay, variance, chance and limit; so the four fields, the limit among
\* them, change only in the step of a configuration request that found the
\* live count within the limit or the limit not positive.
C20_GuardBeforeConfig ==
    [][/\ \A h \in Handler :
            (/\ Starts(h) /\ Accepted(h)
             /\ Contains(req[h].path, "configDelay")
             /\ OverLimit(h)) =>
                /\ route'[h] = "reject" /\ status'[h] = 503
                /\ echo'[h] = <<>>
                /\ chaosVars' = chaosVars
       /\ chaosVars' # chaosVars =>
            \E h \in Handler :
                /\ Starts(h) /\ route'[h] = "config"
                /\ ~OverLimit(h)
      ]_vars

\* a configDelay request that asked to clear the limit was refused while
\* two other handlers were in flight, and the limit is still 3
C20_Witness ==
    \E h \in Handler :
        /\ route[h] = "reject" /\ status[h] = 503 /\ pc[h] = "ret"
        /\ req[h].path = <<"configDelay">>
        /\ req[h].query = QueryOf("limit", <<"-", "1">>)
        /\ goroutinelimit = 3
        /\ \E g \in Handler \ {h} : route[g] = "capture"

====
